---- MODULE Spec2Model ----
(***************************************************************************)
(* rufl (RunFlow): resolution of the command line into a work list         *)
(* (processCommands, main.go) and the run of that work list.               *)
(*                                                                         *)
(* A Go string is a sequence of one-character strings, so that prefix      *)
(* tests, substring tests and splitting are computed, not assumed.  The    *)
(* characters backtick, backslash, double quote and single quote are       *)
(* written by name, and so are carriage return (CR) and newline (LF); an   *)
(* ANSI escape sequence and a fixed piece of message text are one token.   *)
(***************************************************************************)
EXTENDS Integers, Sequences, FiniteSets, TLC

(***************************************************************************)
(* Bounds                                                                  *)
(***************************************************************************)
\* longest argument list / -t flag list of a processCommands call
MaxArgs == 3
MaxTags == 1
\* how often processCommands is called on the same inputs
MaxCalls == 2
\* longest argument list / -t flag list of a whole program run
MaxRunArgs == 1
MaxRunTags == 1
\* longest command text handed to needsShell
MaxCmdLen == 2
\* longest argument list of a run with signals
MaxWork == 2
\* number of signals the process receives in a run
MaxSignals == 2
\* latest reading of the clock, in seconds
MaxTime == 2
\* longest output of a child on its stdout, in tokens
MaxStream == 3

(***************************************************************************)
(* Input universe: the argument strings and -t values the command line can *)
(* carry.  Letters a, b are command text, x, y are tag names.              *)
(***************************************************************************)
ArgPool ==
    { <<"a">>,                          \* plain command
      <<"+", "a">>,                     \* '+' without ':'
      <<"a", ":", "b">>,                \* ':' without leading '+'
      <<"+", "x", ":", "a">>,           \* +x:a
      <<"+", ":", "a">>,                \* +:a, same command, empty name
      <<"+", "x", ":", "+", "a">> }     \* +x:+a, command text "+a"

TagPool ==
    { <<"x", ":", "a">>,                \* x:a
      <<"y", ":", "b">>,                \* y:b
      <<":", "a">>,                     \* :a, empty name
      <<"a">>,                          \* no ':'
      <<"y", ":", "+", "a">>,           \* y:+a, command text "+a"
      <<"x", ":", "a", ":", "b">> }     \* x:a:b, command text "a:b"

\* the command lines of whole program runs
RunArgPool == { <<"a">>, <<"+", "x", ":", "a">> }

RunTagPool == { <<"x", ":", "a">>, <<"a">> }

\* the command line of a concurrent run with tags given by the user, the
\* same tag twice included (tag_test.go:99-109)
KeyedPool == { <<"+", "x", ":", "a">>, <<"+", "y", ":", "a">> }

\* the process ids the operating system hands out
MaxPid == 2

\* the commands of a run with signals: what the scheduler and the listener
\* do does not depend on the command text
WorkPool == { <<"a">> }

\* the characters of a command text handed to needsShell: the characters
\* of shellSpecialChars and some that are not
CmdChars ==
    { "|", "&", ";", "<", ">", "(", ")", "$", "BACKTICK", "BACKSLASH",
       "DQUOTE", "QUOTE", "*", "?",
      "[", "]", "#", "~", "=", "%", "a", " ", "-", "." }

\* what a child writes on its stdout: text, an ANSI colour sequence, a
\* carriage return, a newline, and BLOCK, a run of bufio.MaxScanTokenSize
\* (64 KiB) bytes without a newline
StreamTokens == { "a", "ESC[31m", "CR", "LF", "BLOCK" }

\* what a child writes on its stderr: nothing, or one line
ErrStreams == { << >>, << "a", "LF" >> }

\* all sequences over S of length at most n
SeqUpTo(S, n) == UNION { [1..k -> S] : k \in 0..n }

(***************************************************************************)
(* State                                                                   *)
(***************************************************************************)
VARIABLES
    args,            \* the positional argument list handed to the subcommand
    tags,            \* global `tags`: the -t flag values
    subcmd,          \* "p" (parallel) or "s" (sequential) subcommand
    commands,        \* work list returned by the last processCommands call
    prevCommands,    \* work list returned by the call before that
    calls,           \* number of processCommands calls made so far
    pc,              \* "main", "running", "done", "exited"
    exitCode,        \* exit status of the program, -1 while it runs
    parallelMode,    \* global `parallelMode`
    launched,        \* number of work items the scheduler loop has passed
    ecpc,            \* per work item: position of its executeCommand call
    activeCommands,  \* global registry `activeCommands` (indices of entries)
    pid,             \* per work item with a started child: the child's pid
    activeKeys,      \* global registry `activeCommands` by key: the work
                     \* item whose command is stored under a cmdID
    spawned,         \* number of child processes started so far
    forceShell,      \* global `forceShell`
    envVars,         \* global `envVars`
    command,         \* the command text needsShell is called with
    needs,           \* what that call returned: "unset", "true", "false"
    currentSequentialCmd,  \* global `currentSequentialCmd`: a work item, -1 for nil
    status,          \* per work item: how its executeCommand call ended
    sigpc,           \* position of the signal listener goroutine
    sig,             \* the signal the listener is handling, "none" if none
    delivered,       \* number of signals received so far
    lastSigIntTime,  \* global `lastSigIntTime`, 0 for the zero time
    prevSigIntTime,  \* the value of `lastSigIntTime` before its last write
    clock,           \* latest reading of time.Now()
    lastForward,     \* children the listener signalled for the latest signal
    noColor,         \* global `noColor`
    colorSupported,  \* global `colorSupported`
    source,          \* per stream of one child: all that the child writes
    wpos,            \* per stream: how many tokens the child has written
    rpos,            \* per stream: how many tokens processOutput has read
    scan,            \* per stream: processOutput is "reading", or has
                     \* returned at "eof" or after an "error"
    sink,            \* per writer ("out", "err", "main"): what it printed
    stdout,          \* os.Stdout: the Write calls made on it, in order
    waitErr,         \* what cmd.Wait() returned for that child: "none"
                     \* before it returns, "nil", "exit" (*exec.ExitError),
                     \* "other"
    opc              \* executeCommand of that child: "idle", "called",
                     \* "reading", "waiting", "reaped", "deleted", "returned"

outVars == << noColor, colorSupported, source, wpos, rpos, scan, sink,
             stdout, waitErr, opc >>

keyVars == << pid, activeKeys >>

shellVars == << forceShell, envVars, command, needs, outVars, keyVars >>

timeVars == << lastSigIntTime, prevSigIntTime, clock >>

sigVars == << currentSequentialCmd, status, sigpc, sig, delivered,
              timeVars, lastForward >>

vars == << args, tags, subcmd, commands, prevCommands, calls, pc, exitCode,
           parallelMode, launched, ecpc, activeCommands, spawned,
           shellVars, sigVars >>

runVars == << parallelMode, launched, ecpc, activeCommands, spawned >>

resolveVars == << args, tags, subcmd, commands, prevCommands, calls >>

(***************************************************************************)
(* Go library functions used by processCommands                            *)
(***************************************************************************)
\* strings.HasPrefix(s, c) for a one-character prefix
HasPrefix(s, c) == Len(s) >= 1 /\ s[1] = c

\* strings.Contains(s, c) for a one-character substring
Contains(s, c) == \E i \in 1..Len(s) : s[i] = c

\* strings.Index(s, c): 1-based position of the first c, 0 if none
Index(s, c) ==
    IF Contains(s, c)
    THEN CHOOSE i \in 1..Len(s) : s[i] = c /\ \A j \in 1..(i-1) : s[j] # c
    ELSE 0

\* strings.SplitN(s, sep, n), n > 0: at most n pieces, the last unsplit
RECURSIVE SplitN(_, _, _)
SplitN(s, sep, n) ==
    IF n <= 1 \/ ~Contains(s, sep)
    THEN << s >>
    ELSE LET i == Index(s, sep)
         IN  << SubSeq(s, 1, i - 1) >> \o SplitN(SubSeq(s, i + 1, Len(s)), sep, n - 1)

\* one decimal digit
Digit(d) == << "0", "1", "2", "3", "4", "5", "6", "7", "8", "9" >>[d + 1]

\* fmt.Sprintf("%d", n) for n >= 0
RECURSIVE Itoa(_)
Itoa(n) ==
    IF n < 10 THEN << Digit(n) >>
    ELSE Itoa(n \div 10) \o << Digit(n % 10) >>

\* strings.Contains(s, sub) for a substring of any length
ContainsStr(s, sub) ==
    \E i \in 0..(Len(s) - Len(sub)) : SubSeq(s, i + 1, i + Len(sub)) = sub

(***************************************************************************)
(* needsShell (main.go:322-361)                                            *)
(***************************************************************************)
\* lines 62-64
shellSpecialCharsNoPercent ==
    << "|", "&", ";", "<", ">", "(", ")", "$", "BACKTICK", "BACKSLASH",
       "DQUOTE", "QUOTE", "*", "?",
       "[", "]", "#", "~", "=" >>

shellSpecialChars ==
    << "|", "&", ";", "<", ">", "(", ")", "$", "BACKTICK", "BACKSLASH",
       "DQUOTE", "QUOTE", "*", "?",
       "[", "]", "#", "~", "=", "%" >>

\* needsShell(cmd) with the globals forceShell and envVars as fs and ev
needsShell(cmd, fs, ev) ==
    IF fs THEN TRUE
    ELSE IF Len(ev) > 0 THEN TRUE
    ELSE IF \E k \in 1..Len(shellSpecialChars) :
               ContainsStr(cmd, << shellSpecialChars[k] >>) THEN TRUE
    ELSE IF \/ ContainsStr(cmd, << "&", "&" >>)
            \/ ContainsStr(cmd, << "|", "|" >>)
            \/ ContainsStr(cmd, << ";" >>) THEN TRUE
    ELSE IF ContainsStr(cmd, << ">" >>) \/ ContainsStr(cmd, << "<" >>) THEN TRUE
    ELSE IF ContainsStr(cmd, << "|" >>) THEN TRUE
    ELSE IF \/ ContainsStr(cmd, << "*" >>)
            \/ ContainsStr(cmd, << "?" >>)
            \/ ContainsStr(cmd, << "[" >>) THEN TRUE
    ELSE FALSE

(***************************************************************************)
(* processCommands (main.go:195-282)                                       *)
(***************************************************************************)
\* line 205: the test that makes an argument a +tag:command declaration
IsTagArgPrefixOnly(arg) == HasPrefix(arg, "+")

IsTagArg(arg) == HasPrefix(arg, "+") /\ Contains(arg, ":")

\* lines 207-219: the declarations one +tag:command argument contributes
InlineDecl(arg) ==
    LET tagParts == SplitN(Tail(arg), ":", 2)
    IN  IF Len(tagParts) # 2
        THEN << >>
        ELSE << [Tag |-> tagParts[1], Command |-> tagParts[2]] >>

\* lines 228-240: the declarations one -t value contributes
FlagDeclKeepMalformed(tag) ==
    LET tagParts == SplitN(tag, ":", 2)
    IN  IF Len(tagParts) # 2
        THEN << [Tag |-> tag, Command |-> tag] >>
        ELSE << [Tag |-> tagParts[1], Command |-> tagParts[2]] >>

FlagDecl(tag) ==
    LET tagParts == SplitN(tag, ":", 2)
    IN  IF Len(tagParts) # 2
        THEN << >>
        ELSE << [Tag |-> tagParts[1], Command |-> tagParts[2]] >>

\* lines 204-224: first loop, from argument k on
RECURSIVE SeparateArgs(_, _, _, _)
SeparateArgs(as, k, regularArgs, taggedCommands) ==
    IF k > Len(as)
    THEN [regularArgs |-> regularArgs, taggedCommands |-> taggedCommands]
    ELSE IF IsTagArg(as[k])
         THEN SeparateArgs(as, k + 1, regularArgs,
                           taggedCommands \o InlineDecl(as[k]))
         ELSE SeparateArgs(as, k + 1, Append(regularArgs, as[k]),
                           taggedCommands)

\* lines 227-241: second loop, from -t value k on
RECURSIVE AddFlagTagsFront(_, _, _)
AddFlagTagsFront(ts, k, taggedCommands) ==
    IF k > Len(ts)
    THEN taggedCommands
    ELSE AddFlagTagsFront(ts, k + 1, FlagDecl(ts[k]) \o taggedCommands)

RECURSIVE AddFlagTags(_, _, _)
AddFlagTags(ts, k, taggedCommands) ==
    IF k > Len(ts)
    THEN taggedCommands
    ELSE AddFlagTags(ts, k + 1, taggedCommands \o FlagDecl(ts[k]))

\* line 246: the default tag of the regular argument with 0-based index i
DefaultTagZeroBased(i) == Itoa(i)

DefaultTag(i) == Itoa(i + 1)

\* lines 249-250: 1-based position of the first declaration whose command
\* equals cmd, 0 if there is none
FindTaggedLast(taggedCommands, cmd) ==
    IF \E j \in 1..Len(taggedCommands) : taggedCommands[j].Command = cmd
    THEN CHOOSE j \in 1..Len(taggedCommands) :
            /\ taggedCommands[j].Command = cmd
            /\ \A h \in (j+1)..Len(taggedCommands) : taggedCommands[h].Command # cmd
    ELSE 0

FindTagged(taggedCommands, cmd) ==
    IF \E j \in 1..Len(taggedCommands) : taggedCommands[j].Command = cmd
    THEN CHOOSE j \in 1..Len(taggedCommands) :
            /\ taggedCommands[j].Command = cmd
            /\ \A h \in 1..(j-1) : taggedCommands[h].Command # cmd
    ELSE 0

\* line 253: append(taggedCommands[:j], taggedCommands[j+1:]...)
RemoveTaggedKeep(taggedCommands, j) == taggedCommands

RemoveTagged(taggedCommands, j) ==
    SubSeq(taggedCommands, 1, j - 1) \o SubSeq(taggedCommands, j + 1, Len(taggedCommands))

\* lines 244-263: third loop, from the regular argument with 0-based index i on
RECURSIVE MatchRegular(_, _, _, _)
MatchRegular(regularArgs, i, taggedCommands, cmds) ==
    IF i >= Len(regularArgs)
    THEN [commands |-> cmds, taggedCommands |-> taggedCommands]
    ELSE LET cmd == regularArgs[i + 1]
             j   == FindTagged(taggedCommands, cmd)
             tag == IF j = 0 THEN DefaultTag(i) ELSE taggedCommands[j].Tag
             rest == IF j = 0 THEN taggedCommands ELSE RemoveTagged(taggedCommands, j)
         IN  MatchRegular(regularArgs, i + 1, rest,
                          Append(cmds, [Command |-> cmd, Tag |-> tag, Index |-> i]))

\* line 266: the index of the first appended declaration
RemainingIndexZero(regularArgs) == 0

RemainingIndex(regularArgs) == Len(regularArgs)

\* lines 267-274: fourth loop, from declaration k on
RECURSIVE AppendRemaining(_, _, _, _)
AppendRemaining(taggedCommands, k, remainingIndex, cmds) ==
    IF k > Len(taggedCommands)
    THEN cmds
    ELSE AppendRemaining(taggedCommands, k + 1, remainingIndex + 1,
                         Append(cmds, [Command |-> taggedCommands[k].Command,
                                       Tag     |-> taggedCommands[k].Tag,
                                       Index   |-> remainingIndex]))

\* line 276: the test for the fatal "No commands specified" exit
NoCommandsNever(cmds) == FALSE

NoCommands(cmds) == Len(cmds) = 0

\* lines 196-274: the work list built from the arguments and the -t values
BuildCommands(as, ts) ==
    LET sep     == SeparateArgs(as, 1, << >>, << >>)
        pool    == AddFlagTags(ts, 1, sep.taggedCommands)
        matched == MatchRegular(sep.regularArgs, 0, pool, << >>)
    IN  AppendRemaining(matched.taggedCommands, 1,
                        RemainingIndex(sep.regularArgs), matched.commands)

\* the whole call: the returned work list, whether the call exits the
\* program (lines 276-279), and the argument list and the global -t list as
\* the call leaves them (it assigns to neither)
processCommandsDraining(as, ts) ==
    LET cmds == BuildCommands(as, ts)
    IN  [commands |-> cmds, exits |-> NoCommands(cmds), args |-> as, tags |-> << >>]

processCommands(as, ts) ==
    LET cmds == BuildCommands(as, ts)
    IN  [commands |-> cmds, exits |-> NoCommands(cmds), args |-> as, tags |-> ts]

(***************************************************************************)
(* The output of a child (processOutput, printColoredMessage)              *)
(***************************************************************************)
\* the two pipes of a child, and who prints: the two processOutput calls
\* and executeCommand itself
Streams == {"out", "err"}

Writers == {"out", "err", "main"}

\* the tag of the child's work item
Tag == << "1" >>

\* the streamType argument of the two processOutput calls (main.go:452, 458)
StreamType(s) == IF s = "out" THEN << "o", "u", "t" >> ELSE << "e", "r", "r" >>

\* the ANSI colour codes (main.go:22-24)
colorReset == << "ESC[0m" >>

colorRed == << "ESC[31m" >>

colorGreen == << "ESC[32m" >>

colorYellow == << "ESC[33m" >>

colorCyan == << "ESC[36m" >>

\* the colour argument of the two processOutput calls (main.go:452, 458)
StreamColor(s) == IF s = "out" THEN colorGreen ELSE colorRed

\* main.go:498 and 516: colours are off
ColorOff == noColor \/ ~colorSupported

\* the text one iteration of the loop of processOutput prints for a line
\* (main.go:497-506); Println and the explicit "\n" both end it with LF
FormatLineKindAlways(tag, streamType, color, line) ==
    IF ColorOff
    THEN << "[" >> \o tag \o << ":" >> \o streamType \o << "]", " " >> \o line \o << "LF" >>
    ELSE color \o << "[" >> \o tag \o << ":" >> \o streamType \o << "]", " " >>
               \o colorReset \o line \o << "LF" >>

FormatLine(tag, streamType, color, line) ==
    IF ColorOff
    THEN << "[" >> \o tag \o << ":" >> \o streamType \o << "]", " " >> \o line \o << "LF" >>
    ELSE color \o << "[" >> \o tag \o << "]", " " >> \o colorReset \o line \o << "LF" >>

\* what printColoredMessage(message, color) prints (main.go:515-521)
PrintColoredMessageAlways(message, color) ==
    color \o message \o colorReset \o << "LF" >>

PrintColoredMessage(message, color) ==
    IF ColorOff
    THEN message \o << "LF" >>
    ELSE color \o message \o colorReset \o << "LF" >>

\* the Write calls on os.Stdout that print one text: fmt.Println, fmt.Print
\* and fmt.Printf format their operands into one buffer and hand it to the
\* file in one Write call, and the Write calls on a file are serialized
\* (main.go:500, 504, 517, 519)
StdoutWritesNewlineApart(text) ==
    << SubSeq(text, 1, Len(text) - 1), << text[Len(text)] >> >>

StdoutWrites(text) == << text >>

\* the message of main.go:510 for bufio.ErrTooLong
ReadErrorMessage(tag, streamType) ==
    << "[" >> \o tag \o << "]", " ", "Error reading " >> \o streamType
              \o << ": ", "bufio.Scanner: token too long" >>

\* the message of main.go:486
SuccessMessage(tag) ==
    << "[" >> \o tag \o << "]", " ", "Command completed successfully" >>

\* the command text of the child's work item
ChildCommand == << "a" >>

\* the message of main.go:396
ExecutingMessage(tag, cmd) ==
    << "[" >> \o tag \o << "]", " ", "Executing directly: " >> \o cmd

\* what executeCommand prints when it returns without a child: the command
\* text does not tokenize (main.go:387), is empty (main.go:391), a pipe
\* cannot be made (main.go:420, 426; Printf, no colour), or cmd.Start fails
\* (main.go:437)
StartFailureText(tag, r) ==
    CASE r = "parseError" ->
            PrintColoredMessage(<< "[" >> \o tag \o << "]", " ",
                                   "Error parsing command: ", "error" >>, colorRed)
      [] r = "emptyCommand" ->
            PrintColoredMessage(<< "[" >> \o tag \o << "]", " ", "Empty command" >>,
                                colorRed)
      [] r = "pipeError" ->
            << "Error creating stdout pipe for command " >> \o tag
               \o << ": ", "error", "LF" >>
      [] r = "startError" ->
            PrintColoredMessage(<< "[" >> \o tag \o << "]", " ",
                                   "Error starting command: ", "error" >>, colorRed)

\* the status line executeCommand prints for what cmd.Wait() returned
\* (main.go:477-487)
CompletionText(tag, err) ==
    CASE err = "exit" ->
            PrintColoredMessage(<< "[" >> \o tag \o << "]", " ",
                                   "Command exited with status: ", "1" >>, colorYellow)
      [] err = "other" ->
            PrintColoredMessage(<< "[" >> \o tag \o << "]", " ",
                                   "Error waiting for command: ", "error" >>, colorRed)
      [] err = "nil" ->
            PrintColoredMessage(SuccessMessage(tag), colorGreen)

\* bufio.ScanLines drops one trailing carriage return of a line
DropCR(data) ==
    IF Len(data) > 0 /\ data[Len(data)] = "CR"
    THEN SubSeq(data, 1, Len(data) - 1)
    ELSE data

\* the content of the pipe of stream s: written and not yet read
Pipe(s) == SubSeq(source[s], rpos[s] + 1, wpos[s])

\* the child has written everything and has exited: its ends of the pipes
\* are closed
ChildExited == \A s \in Streams : wpos[s] = Len(source[s])

\* the capacity of a pipe, in runs of 64 KiB (text, colour sequences and
\* line ends are small and are not counted)
PipeBlocks == 1

\* the child's write of its next token on stream s does not block
CanWrite(s) ==
    \/ source[s][wpos[s] + 1] # "BLOCK"
    \/ Cardinality({ i \in (rpos[s] + 1)..wpos[s] : source[s][i] = "BLOCK" }) < PipeBlocks

\* position in the pipe of the first newline or BLOCK, 0 if there is none:
\* where the next call of scanner.Scan() stops reading
FirstStop(data) ==
    IF \E i \in 1..Len(data) : data[i] \in {"LF", "BLOCK"}
    THEN CHOOSE i \in 1..Len(data) :
            /\ data[i] \in {"LF", "BLOCK"}
            /\ \A j \in 1..(i - 1) : data[j] \notin {"LF", "BLOCK"}
    ELSE 0

(***************************************************************************)
(* Initial states                                                          *)
(***************************************************************************)
\* the package variables at program start (main.go:31-52) for argument
\* list a, -t values t and subcommand m, but for forceShell and envVars
InitCore(a, t, m) ==
    /\ args = a
    /\ tags = t
    /\ subcmd = m
    /\ commands = << >>
    /\ prevCommands = << >>
    /\ calls = 0
    /\ pc = "main"
    /\ exitCode = -1
    /\ parallelMode = FALSE
    /\ launched = 0
    /\ ecpc = << >>
    /\ activeCommands = {}
    /\ spawned = 0
    /\ currentSequentialCmd = -1
    /\ status = << >>
    /\ sigpc = "idle"
    /\ sig = "none"
    /\ delivered = 0
    /\ lastSigIntTime = 0
    /\ prevSigIntTime = 0
    /\ clock = 1
    /\ lastForward = {}
    /\ pid = << >>
    /\ activeKeys = << >>

\* no child output is followed
OutputIdle ==
    /\ noColor = FALSE
    /\ colorSupported = FALSE
    /\ source = [s \in Streams |-> << >>]
    /\ wpos = [s \in Streams |-> 0]
    /\ rpos = [s \in Streams |-> 0]
    /\ scan = [s \in Streams |-> "eof"]
    /\ sink = [w \in Writers |-> << >>]
    /\ stdout = << >>
    /\ waitErr = "none"
    /\ opc = "idle"

\* without --shell and -e flags (main.go:92, 94)
InitState(a, t, m) ==
    /\ InitCore(a, t, m)
    /\ forceShell = FALSE
    /\ envVars = << >>
    /\ command = << >>
    /\ needs = "unset"
    /\ OutputIdle

\* processCommands called on its own, as the tests do
Init ==
    \E a \in SeqUpTo(ArgPool, MaxArgs), t \in SeqUpTo(TagPool, MaxTags) :
        InitState(a, t, "s")

\* a program run: one of the two subcommands with a short command line
InitMain ==
    \E a \in SeqUpTo(RunArgPool, MaxRunArgs), t \in SeqUpTo(RunTagPool, MaxRunTags),
       m \in {"p", "s"} :
        InitState(a, t, m)

\* needsShell called on its own, as TestNeedsShell does (main_test.go:92-221)
InitShell ==
    /\ InitCore(<< >>, << >>, "s")
    /\ forceShell \in BOOLEAN
    /\ envVars \in { << >>, << << "a", "=", "a" >> >> }
    /\ command \in SeqUpTo(CmdChars, MaxCmdLen)
    /\ needs = "unset"
    /\ OutputIdle

\* executeCommand from outputWg.Add(2) on (main.go:445-488) for one child
\* that has just been started, with the colour settings as the flags and
\* enableVirtualTerminalProcessing left them (main.go:68, 91)
InitOutput ==
    /\ InitCore(<< >>, << >>, "s")
    /\ forceShell = FALSE
    /\ envVars = << >>
    /\ command = << >>
    /\ needs = "unset"
    /\ noColor \in BOOLEAN
    /\ colorSupported \in BOOLEAN
    /\ \E o \in SeqUpTo(StreamTokens, MaxStream), e \in ErrStreams :
          source = [s \in Streams |-> IF s = "out" THEN o ELSE e]
    /\ wpos = [s \in Streams |-> 0]
    /\ rpos = [s \in Streams |-> 0]
    /\ scan = [s \in Streams |-> "reading"]
    /\ sink = [w \in Writers |-> << >>]
    /\ stdout = << >>
    /\ waitErr = "none"
    /\ opc = "reading"

\* one call of executeCommand (main.go:364) for a command that does not
\* need a shell, in sequential mode
InitCommand ==
    /\ InitCore(<< >>, << >>, "s")
    /\ forceShell = FALSE
    /\ envVars = << >>
    /\ command = << >>
    /\ needs = "unset"
    /\ noColor \in BOOLEAN
    /\ colorSupported \in BOOLEAN
    /\ \E o \in SeqUpTo(StreamTokens, MaxStream), e \in ErrStreams :
          source = [s \in Streams |-> IF s = "out" THEN o ELSE e]
    /\ wpos = [s \in Streams |-> 0]
    /\ rpos = [s \in Streams |-> 0]
    /\ scan = [s \in Streams |-> "reading"]
    /\ sink = [w \in Writers |-> << >>]
    /\ stdout = << >>
    /\ waitErr = "none"
    /\ opc = "called"

\* a program run that receives signals
InitRun ==
    \E a \in SeqUpTo(WorkPool, MaxWork), m \in {"p", "s"} :
        InitState(a, << >>, m)

\* a run of the sequential subcommand that receives signals
InitSeq ==
    \E a \in SeqUpTo(WorkPool, MaxWork) : InitState(a, << >>, "s")

\* a run of the parallel subcommand with tagged commands
InitKeyed ==
    \E a \in SeqUpTo(KeyedPool, MaxWork) : InitState(a, << >>, "p")

(***************************************************************************)
(* Actions                                                                 *)
(***************************************************************************)
\* one call of processCommands(args) with the global tags (tag_test.go:115-117)
ProcessCommandsCall ==
    /\ pc = "main"
    /\ calls < MaxCalls
    /\ LET r == processCommands(args, tags)
       IN  /\ args' = r.args
           /\ tags' = r.tags
           /\ prevCommands' = commands
           /\ commands' = r.commands
           /\ calls' = calls + 1
           /\ IF r.exits
              THEN pc' = "exited" /\ exitCode' = 1
              ELSE UNCHANGED << pc, exitCode >>
    /\ UNCHANGED << subcmd, runVars, shellVars, sigVars >>

\* one call of needsShell(command) (main_test.go:206-218)
NeedsShellCall ==
    /\ needs = "unset"
    /\ needs' = IF needsShell(command, forceShell, envVars) THEN "true" ELSE "false"
    /\ UNCHANGED << resolveVars, pc, exitCode, runVars, keyVars, forceShell,
                    envVars,
                    command, outVars, sigVars >>

\* the Run handler of a subcommand (main.go:102-105, 114-117) up to the
\* scheduler loop: processCommands, then runCommands sets parallelMode
SubcommandRun ==
    /\ pc = "main"
    /\ calls = 0
    /\ LET r == processCommands(args, tags)
       IN  /\ args' = r.args
           /\ tags' = r.tags
           /\ prevCommands' = commands
           /\ commands' = r.commands
           /\ calls' = 1
           /\ IF r.exits
              THEN /\ pc' = "exited"
                   /\ exitCode' = 1
                   /\ UNCHANGED << parallelMode, ecpc, status >>
              ELSE /\ pc' = "running"
                   /\ parallelMode' = (subcmd = "p")
                   /\ ecpc' = [i \in 0..(Len(r.commands) - 1) |-> "idle"]
                   /\ status' = [i \in 0..(Len(r.commands) - 1) |-> "none"]
                   /\ UNCHANGED exitCode
    /\ UNCHANGED << subcmd, launched, activeCommands, spawned, shellVars,
                    currentSequentialCmd, sigpc, sig, delivered,
                    timeVars, lastForward >>

\* when the scheduler loop may pass to its next work item: runParallel only
\* sleeps between two `go` statements (main.go:300-309), runSequential has
\* come back from the previous executeCommand call (main.go:316-318)
CanLaunchIfSucceeded ==
    IF parallelMode \/ launched = 0 THEN TRUE
    ELSE ecpc[launched - 1] = "returned" /\ status[launched - 1] = "success"

CanLaunchAlways == TRUE

CanLaunch ==
    IF parallelMode \/ launched = 0 THEN TRUE
    ELSE ecpc[launched - 1] = "returned"

\* one iteration of the scheduler loop: runParallel starts a goroutine that
\* calls executeCommand (main.go:300-304); runSequential calls it
\* (main.go:316-318)
Launch ==
    /\ pc = "running"
    /\ launched < Len(commands)
    /\ CanLaunch
    /\ ecpc' = [ecpc EXCEPT ![launched] = "called"]
    /\ launched' = launched + 1
    /\ UNCHANGED << resolveVars, pc, exitCode, parallelMode, activeCommands,
                    spawned, shellVars, sigVars >>

\* currentCmdMutex: executeCommand locks, assigns and unlocks without a
\* step in between (main.go:402-404, 472-474), so the mutex is held across
\* steps only by the listener, between SigLock and SigForward
MutexFree == sigpc # "locked"

\* what executeCommand leaves of a call that ended with result r: the child
\* never existed (the returns of main.go:385-393, 417-428, 435-439), it was
\* reaped with a wait error or a non-zero exit status (main.go:477-486), or
\* it was reaped with exit status 0
Outcome(r) ==
    CASE r \in {"parseError", "emptyCommand", "pipeError", "startError"} -> "notStarted"
      [] r \in {"waitError", "exitStatus"} -> "failed"
      [] r = "success" -> "success"

\* executeCommand up to the assignment of currentSequentialCmd
\* (main.go:364-405): the command is built, or the call returns because the
\* command text does not tokenize or is empty (only without a shell)
ExecutePrepare(i) ==
    /\ pc = "running"
    /\ ecpc[i] = "called"
    /\ \E r \in IF needsShell(commands[i + 1].Command, forceShell, envVars)
                THEN {"ok"}
                ELSE {"ok", "parseError", "emptyCommand"} :
        IF r = "ok"
        THEN /\ parallelMode \/ MutexFree
             /\ ecpc' = [ecpc EXCEPT ![i] = "built"]
             /\ currentSequentialCmd' = IF parallelMode THEN currentSequentialCmd ELSE i
             /\ UNCHANGED status
        ELSE /\ ecpc' = [ecpc EXCEPT ![i] = "returned"]
             /\ status' = [status EXCEPT ![i] = Outcome(r)]
             /\ UNCHANGED currentSequentialCmd
    /\ UNCHANGED << resolveVars, pc, exitCode, parallelMode, launched,
                    activeCommands, spawned, shellVars, sigpc, sig, delivered,
                    timeVars, lastForward >>

\* executeCommand from the pipes to cmd.Start (main.go:407-439): the child
\* is started, or the call returns on a pipe error or a start error
ExecuteStart(i) ==
    /\ pc = "running"
    /\ ecpc[i] = "built"
    /\ \E r \in {"ok", "pipeError", "startError"} :
        IF r = "ok"
        THEN /\ ecpc' = [ecpc EXCEPT ![i] = "started"]
             /\ spawned' = spawned + 1
             /\ UNCHANGED status
        ELSE /\ ecpc' = [ecpc EXCEPT ![i] = "returned"]
             /\ status' = [status EXCEPT ![i] = Outcome(r)]
             /\ UNCHANGED spawned
    /\ UNCHANGED << resolveVars, pc, exitCode, parallelMode, launched,
                    activeCommands, shellVars, currentSequentialCmd, sigpc,
                    sig, delivered, timeVars, lastForward >>

\* activeCommands.Store(cmdID, cmd) (main.go:441-443)
ExecuteRegister(i) ==
    /\ pc = "running"
    /\ ecpc[i] = "started"
    /\ ecpc' = [ecpc EXCEPT ![i] = "registered"]
    /\ activeCommands' = activeCommands \cup {i}
    /\ UNCHANGED << resolveVars, pc, exitCode, parallelMode, launched,
                    spawned, shellVars, sigVars >>

\* the output has been read and cmd.Wait() has returned (main.go:445-465):
\* the child is reaped, with exit status 0, another exit status, or an error
ExecuteWait(i) ==
    /\ pc = "running"
    /\ ecpc[i] = "registered"
    /\ ecpc' = [ecpc EXCEPT ![i] = "reaped"]
    /\ \E r \in {"success", "exitStatus", "waitError"} :
        status' = [status EXCEPT ![i] = Outcome(r)]
    /\ UNCHANGED << resolveVars, pc, exitCode, parallelMode, launched,
                    activeCommands, spawned, shellVars, currentSequentialCmd,
                    sigpc, sig, delivered, timeVars, lastForward >>

\* activeCommands.Delete(cmdID), currentSequentialCmd = nil in sequential
\* mode, and the status line; executeCommand returns (main.go:467-488)
ExecuteFinishResetTime(i) ==
    /\ pc = "running"
    /\ ecpc[i] = "reaped"
    /\ parallelMode \/ MutexFree
    /\ ecpc' = [ecpc EXCEPT ![i] = "returned"]
    /\ activeCommands' = activeCommands \ {i}
    /\ currentSequentialCmd' = IF parallelMode THEN currentSequentialCmd ELSE -1
    /\ lastSigIntTime' = 0
    /\ UNCHANGED << resolveVars, pc, exitCode, parallelMode, launched,
                    spawned, shellVars, status, sigpc, sig, delivered,
                    prevSigIntTime, clock, lastForward >>

ExecuteFinish(i) ==
    /\ pc = "running"
    /\ ecpc[i] = "reaped"
    /\ parallelMode \/ MutexFree
    /\ ecpc' = [ecpc EXCEPT ![i] = "returned"]
    /\ activeCommands' = activeCommands \ {i}
    /\ currentSequentialCmd' = IF parallelMode THEN currentSequentialCmd ELSE -1
    /\ UNCHANGED << resolveVars, pc, exitCode, parallelMode, launched,
                    spawned, shellVars, status, sigpc, sig, delivered,
                    timeVars, lastForward >>

\* cmdID := fmt.Sprintf("%s-%d", cmdInfo.Tag, cmd.Process.Pid) (main.go:442)
CmdID(i) == commands[i + 1].Tag \o << "-" >> \o Itoa(pid[i])

\* the pids of our children that are started and not yet reaped: the
\* operating system gives a new process any other pid
PidsInUse == { pid[j] : j \in { k \in DOMAIN pid : ecpc[k] \in {"started", "registered"} } }

\* executeCommand from the pipes to cmd.Start (main.go:407-439), with the
\* pid the child gets
ProcessStart(i) ==
    /\ pc = "running"
    /\ ecpc[i] = "built"
    /\ \E r \in {"ok", "pipeError", "startError"} :
        IF r = "ok"
        THEN /\ \E p \in (1..MaxPid) \ PidsInUse :
                   pid' = [j \in DOMAIN pid \cup {i} |-> IF j = i THEN p ELSE pid[j]]
             /\ ecpc' = [ecpc EXCEPT ![i] = "started"]
             /\ spawned' = spawned + 1
             /\ UNCHANGED status
        ELSE /\ ecpc' = [ecpc EXCEPT ![i] = "returned"]
             /\ status' = [status EXCEPT ![i] = Outcome(r)]
             /\ UNCHANGED << spawned, pid >>
    /\ UNCHANGED << resolveVars, pc, exitCode, parallelMode, launched,
                    activeCommands, activeKeys, forceShell, envVars, command,
                    needs, outVars, currentSequentialCmd, sigpc,
                    sig, delivered, timeVars, lastForward >>

\* activeCommands.Store(cmdID, cmd) (main.go:441-443), by key: an entry
\* already stored under the key is replaced
ActiveCommandsStore(i) ==
    /\ pc = "running"
    /\ ecpc[i] = "started"
    /\ ecpc' = [ecpc EXCEPT ![i] = "registered"]
    /\ activeKeys' = [k \in DOMAIN activeKeys \cup {CmdID(i)} |->
                         IF k = CmdID(i) THEN i ELSE activeKeys[k]]
    /\ UNCHANGED << resolveVars, pc, exitCode, parallelMode, launched,
                    activeCommands, spawned, pid, forceShell, envVars, command,
                    needs, outVars, sigVars >>

\* activeCommands.Delete(cmdID), by key, currentSequentialCmd = nil in
\* sequential mode, and the status line; executeCommand returns
\* (main.go:467-488)
ActiveCommandsDelete(i) ==
    /\ pc = "running"
    /\ ecpc[i] = "reaped"
    /\ parallelMode \/ MutexFree
    /\ ecpc' = [ecpc EXCEPT ![i] = "returned"]
    /\ activeKeys' = [k \in DOMAIN activeKeys \ {CmdID(i)} |-> activeKeys[k]]
    /\ currentSequentialCmd' = IF parallelMode THEN currentSequentialCmd ELSE -1
    /\ UNCHANGED << resolveVars, pc, exitCode, parallelMode, launched,
                    activeCommands, spawned, pid, forceShell, envVars, command,
                    needs, outVars, status, sigpc, sig, delivered,
                    timeVars, lastForward >>

\* the exit status of the program when main returns (main.go:122-126):
\* rootCmd.Execute() returns nil whatever the commands did
MainExitStatusFailures(st) ==
    IF \E i \in DOMAIN st : st[i] # "success" THEN 1 ELSE 0

MainExitStatus(st) == 0

\* the scheduler loop is over and wg.Wait() returns (main.go:311), or the
\* last call of runSequential has returned (main.go:316-319)
SchedulerDoneLaunched == launched = Len(commands)

SchedulerDone ==
    /\ launched = Len(commands)
    /\ \A i \in DOMAIN ecpc : ecpc[i] = "returned"

\* the scheduler returns, the Run handler and main return
RunReturn ==
    /\ pc = "running"
    /\ SchedulerDone
    /\ pc' = "done"
    /\ exitCode' = MainExitStatus(status)
    /\ UNCHANGED << resolveVars, runVars, shellVars, sigVars >>

(***************************************************************************)
(* The child, its pipes and the readers (executeCommand, main.go:445-488)  *)
(***************************************************************************)
\* the child writes its next token on stream s
ChildWrite(s) ==
    /\ opc \in {"reading", "waiting"}
    /\ wpos[s] < Len(source[s])
    /\ CanWrite(s)
    /\ wpos' = [wpos EXCEPT ![s] = @ + 1]
    /\ UNCHANGED << resolveVars, pc, exitCode, runVars, keyVars, forceShell,
                    envVars,
                    command, needs, sigVars, noColor, colorSupported, source,
                    rpos, scan, sink, stdout, waitErr, opc >>

\* one iteration of the loop of processOutput (main.go:493-507) that finds
\* a newline, or the call of scanner.Scan() that fills the buffer of
\* bufio.MaxScanTokenSize bytes without finding one: the loop ends and the
\* error is reported (main.go:509-511)
ScanLine(s) ==
    /\ opc = "reading"
    /\ scan[s] = "reading"
    /\ LET data == Pipe(s)
           k == FirstStop(data)
       IN  /\ k > 0
           /\ rpos' = [rpos EXCEPT ![s] = @ + k]
           /\ LET text == IF data[k] = "LF"
                          THEN FormatLine(Tag, StreamType(s), StreamColor(s),
                                          DropCR(SubSeq(data, 1, k - 1)))
                          ELSE PrintColoredMessage(
                                  ReadErrorMessage(Tag, StreamType(s)), colorRed)
              IN  /\ sink' = [sink EXCEPT ![s] = Append(@, text)]
                  /\ stdout' = stdout \o StdoutWrites(text)
           /\ scan' = IF data[k] = "LF" THEN scan ELSE [scan EXCEPT ![s] = "error"]
    /\ UNCHANGED << resolveVars, pc, exitCode, runVars, keyVars, forceShell,
                    envVars,
                    command, needs, sigVars, noColor, colorSupported, source,
                    wpos, waitErr, opc >>

\* the child has closed the pipe: a last line without a newline is printed
\* and processOutput returns (main.go:493-512)
ScanEOF(s) ==
    /\ opc = "reading"
    /\ scan[s] = "reading"
    /\ ChildExited
    /\ FirstStop(Pipe(s)) = 0
    /\ rpos' = [rpos EXCEPT ![s] = wpos[s]]
    /\ LET text == FormatLine(Tag, StreamType(s), StreamColor(s), DropCR(Pipe(s)))
       IN  IF Pipe(s) = << >>
           THEN UNCHANGED << sink, stdout >>
           ELSE /\ sink' = [sink EXCEPT ![s] = Append(@, text)]
                /\ stdout' = stdout \o StdoutWrites(text)
    /\ scan' = [scan EXCEPT ![s] = "eof"]
    /\ UNCHANGED << resolveVars, pc, exitCode, runVars, keyVars, forceShell,
                    envVars,
                    command, needs, sigVars, noColor, colorSupported, source,
                    wpos, waitErr, opc >>

\* outputWg.Wait() returns (main.go:462)
OutputsDoneEither ==
    /\ opc = "reading"
    /\ \E s \in Streams : scan[s] # "reading"
    /\ opc' = "waiting"
    /\ UNCHANGED << resolveVars, pc, exitCode, runVars, keyVars, forceShell,
                    envVars,
                    command, needs, sigVars, noColor, colorSupported, source,
                    wpos, rpos, scan, sink, stdout, waitErr >>

OutputsDone ==
    /\ opc = "reading"
    /\ \A s \in Streams : scan[s] # "reading"
    /\ opc' = "waiting"
    /\ UNCHANGED << resolveVars, pc, exitCode, runVars, keyVars, forceShell,
                    envVars,
                    command, needs, sigVars, noColor, colorSupported, source,
                    wpos, rpos, scan, sink, stdout, waitErr >>

\* cmd.Wait() returns for a child that exits with status 0, the registry
\* entry is deleted and the status line is printed (main.go:465-488)
CmdWait ==
    /\ opc = "waiting"
    /\ ChildExited
    /\ opc' = "returned"
    /\ waitErr' = "nil"
    /\ LET text == PrintColoredMessage(SuccessMessage(Tag), colorGreen)
       IN  /\ sink' = [sink EXCEPT !["main"] = Append(@, text)]
           /\ stdout' = stdout \o StdoutWrites(text)
    /\ UNCHANGED << resolveVars, pc, exitCode, runVars, keyVars, forceShell,
                    envVars,
                    command, needs, sigVars, noColor, colorSupported, source,
                    wpos, rpos, scan >>

\* executeCommand up to the start of the two readers (main.go:364-459): the
\* call returns without a child, or the child is started, entered into the
\* registry as entry 0 and its two pipes are read
CmdStart ==
    /\ opc = "called"
    /\ \E r \in {"ok", "parseError", "emptyCommand", "pipeError", "startError"} :
        LET said == PrintColoredMessage(ExecutingMessage(Tag, ChildCommand), colorCyan)
        IN  /\ sink' = [sink EXCEPT !["main"] =
                          CASE r = "ok" -> Append(@, said)
                            [] r \in {"parseError", "emptyCommand"} ->
                                  Append(@, StartFailureText(Tag, r))
                            [] r \in {"pipeError", "startError"} ->
                                  @ \o << said, StartFailureText(Tag, r) >>]
            /\ stdout' =
                  CASE r = "ok" -> stdout \o StdoutWrites(said)
                    [] r \in {"parseError", "emptyCommand"} ->
                          stdout \o StdoutWrites(StartFailureText(Tag, r))
                    [] r \in {"pipeError", "startError"} ->
                          stdout \o StdoutWrites(said)
                                 \o StdoutWrites(StartFailureText(Tag, r))
            /\ opc' = IF r = "ok" THEN "reading" ELSE "returned"
            /\ spawned' = IF r = "ok" THEN spawned + 1 ELSE spawned
            /\ activeCommands' = IF r = "ok" THEN activeCommands \cup {0}
                                 ELSE activeCommands
            /\ currentSequentialCmd' =
                  IF parallelMode \/ r \in {"parseError", "emptyCommand"}
                  THEN currentSequentialCmd ELSE 0
    /\ UNCHANGED << resolveVars, pc, exitCode, parallelMode, launched, ecpc,
                    keyVars, forceShell, envVars, command, needs, status, sigpc, sig,
                    delivered, timeVars, lastForward, noColor, colorSupported,
                    source, wpos, rpos, scan, waitErr >>

\* cmd.Wait() returns (main.go:465): the child has exited and is reaped
CmdReap ==
    /\ opc = "waiting"
    /\ ChildExited
    /\ \E e \in {"nil", "exit", "other"} : waitErr' = e
    /\ opc' = "reaped"
    /\ UNCHANGED << resolveVars, pc, exitCode, runVars, keyVars, forceShell,
                    envVars,
                    command, needs, sigVars, noColor, colorSupported, source,
                    wpos, rpos, scan, sink, stdout >>

\* activeCommands.Delete(cmdID) and, in sequential mode,
\* currentSequentialCmd = nil (main.go:467-475)
CmdDelete ==
    /\ opc = "reaped"
    /\ activeCommands' = activeCommands \ {0}
    /\ currentSequentialCmd' = IF parallelMode THEN currentSequentialCmd ELSE -1
    /\ opc' = "deleted"
    /\ UNCHANGED << resolveVars, pc, exitCode, parallelMode, launched, ecpc,
                    spawned, keyVars, forceShell, envVars, command, needs, status,
                    sigpc, sig, delivered, timeVars, lastForward, noColor,
                    colorSupported, source, wpos, rpos, scan, sink, stdout,
                    waitErr >>

\* the status line (main.go:477-487); executeCommand returns
CmdStatus ==
    /\ opc = "deleted"
    /\ LET text == CompletionText(Tag, waitErr)
       IN  /\ sink' = [sink EXCEPT !["main"] = Append(@, text)]
           /\ stdout' = stdout \o StdoutWrites(text)
    /\ opc' = "returned"
    /\ UNCHANGED << resolveVars, pc, exitCode, runVars, keyVars, forceShell,
                    envVars,
                    command, needs, sigVars, noColor, colorSupported, source,
                    wpos, rpos, scan, waitErr >>

(***************************************************************************)
(* The signal listener goroutine (setupSignalHandling, main.go:129-192)    *)
(***************************************************************************)
\* time.Second, in clock units
Second == 1

\* syscall.SIGHUP, SIGINT, SIGTERM
SignalNumber(s) == CASE s = "HUP" -> 1 [] s = "INT" -> 2 [] s = "TERM" -> 15

\* line 142: a second Ctrl+C within a second of the recorded one
IsDoubleCtrlCInclusive(last, now) == last # 0 /\ now - last <= Second

IsDoubleCtrlCInverted(last, now) == last # 0 /\ now - last > Second

IsDoubleCtrlC(last, now) == last # 0 /\ now - last < Second

\* cmd.Process != nil: cmd.Start has succeeded for work item i
ProcessStarted(i) ==
    \/ ecpc[i] \in {"started", "registered", "reaped"}
    \/ ecpc[i] = "returned" /\ status[i] \in {"success", "failed"}

\* lines 153-157: the children the sequential forwarding signals
ForwardTargetsAll == activeCommands

ForwardTargets ==
    IF currentSequentialCmd # -1 /\ ProcessStarted(currentSequentialCmd)
    THEN {currentSequentialCmd}
    ELSE {}

\* lines 167-179: the children the broadcast signals
BroadcastTargets == { i \in activeCommands : ProcessStarted(i) }

\* the process is alive and the listener waits on signalChan (line 136)
ListenerIdle ==
    /\ pc \in {"main", "running"}
    /\ sigpc = "idle"
    /\ delivered < MaxSignals

\* lines 138-146: SIGINT in sequential mode within a second of the last one
SigIntDouble ==
    /\ ListenerIdle
    /\ ~parallelMode
    /\ \E now \in clock..MaxTime :
        /\ IsDoubleCtrlC(lastSigIntTime, now)
        /\ clock' = now
    /\ sig' = "INT"
    /\ delivered' = delivered + 1
    /\ pc' = "exited"
    /\ exitCode' = 130
    /\ UNCHANGED << resolveVars, runVars, shellVars, currentSequentialCmd,
                    status, sigpc, lastSigIntTime, prevSigIntTime,
                    lastForward >>

\* lines 138-150: any other SIGINT in sequential mode, up to the mutex
SigIntFirst ==
    /\ ListenerIdle
    /\ ~parallelMode
    /\ \E now \in clock..MaxTime :
        /\ ~IsDoubleCtrlC(lastSigIntTime, now)
        /\ clock' = now
        /\ lastSigIntTime' = now
        /\ prevSigIntTime' = lastSigIntTime
    /\ sig' = "INT"
    /\ delivered' = delivered + 1
    /\ sigpc' = "forward"
    /\ lastForward' = {}
    /\ UNCHANGED << resolveVars, pc, exitCode, runVars, shellVars,
                    currentSequentialCmd, status >>

\* line 153: currentCmdMutex.Lock()
SigLock ==
    /\ pc \in {"main", "running"}
    /\ sigpc = "forward"
    /\ MutexFree
    /\ sigpc' = "locked"
    /\ UNCHANGED << resolveVars, pc, exitCode, runVars, shellVars,
                    currentSequentialCmd, status, sig, delivered,
                    timeVars, lastForward >>

\* lines 154-160: forward to the current command and unlock
\* (Process.Signal does not wait for the child)
SigForwardKeepLock ==
    /\ pc \in {"main", "running"}
    /\ sigpc = "locked"
    /\ lastForward' = ForwardTargets
    /\ UNCHANGED << resolveVars, pc, exitCode, runVars, shellVars,
                    currentSequentialCmd, status, sigpc, sig, delivered,
                    timeVars >>

SigForward ==
    /\ pc \in {"main", "running"}
    /\ sigpc = "locked"
    /\ lastForward' = ForwardTargets
    /\ sigpc' = "idle"
    /\ sig' = "none"
    /\ UNCHANGED << resolveVars, pc, exitCode, runVars, shellVars,
                    currentSequentialCmd, status, delivered,
                    timeVars >>

\* lines 164-179: any other signal, or any signal in parallel mode: forward
\* to every command of the registry
SigBroadcast(s) ==
    /\ ListenerIdle
    /\ ~(s = "INT" /\ ~parallelMode)
    /\ sig' = s
    /\ delivered' = delivered + 1
    /\ lastForward' = BroadcastTargets
    /\ sigpc' = "ranged"
    /\ UNCHANGED << resolveVars, pc, exitCode, runVars, shellVars,
                    currentSequentialCmd, status, timeVars >>

\* lines 182-184: exit after SIGINT or SIGTERM in parallel mode
SigExitParallel ==
    /\ pc \in {"main", "running"}
    /\ sigpc = "ranged"
    /\ IF sig \in {"INT", "TERM"} /\ parallelMode
       THEN /\ pc' = "exited"
            /\ exitCode' = 128 + SignalNumber(sig)
            /\ UNCHANGED sigpc
       ELSE /\ sigpc' = "checked"
            /\ UNCHANGED << pc, exitCode >>
    /\ UNCHANGED << resolveVars, runVars, shellVars, currentSequentialCmd,
                    status, sig, delivered, timeVars, lastForward >>

\* lines 187-190: exit after SIGTERM in sequential mode, else back to the
\* channel
SigExitSequentialOnHangup ==
    /\ pc \in {"main", "running"}
    /\ sigpc = "checked"
    /\ IF sig \in {"TERM", "HUP"} /\ ~parallelMode
       THEN /\ pc' = "exited"
            /\ exitCode' = 128 + SignalNumber(sig)
            /\ UNCHANGED << sigpc, sig >>
       ELSE /\ sigpc' = "idle"
            /\ sig' = "none"
            /\ UNCHANGED << pc, exitCode >>
    /\ UNCHANGED << resolveVars, runVars, shellVars, currentSequentialCmd,
                    status, delivered, timeVars, lastForward >>

SigExitSequential ==
    /\ pc \in {"main", "running"}
    /\ sigpc = "checked"
    /\ IF sig = "TERM" /\ ~parallelMode
       THEN /\ pc' = "exited"
            /\ exitCode' = 128 + SignalNumber(sig)
            /\ UNCHANGED << sigpc, sig >>
       ELSE /\ sigpc' = "idle"
            /\ sig' = "none"
            /\ UNCHANGED << pc, exitCode >>
    /\ UNCHANGED << resolveVars, runVars, shellVars, currentSequentialCmd,
                    status, delivered, timeVars, lastForward >>

(***************************************************************************)
(* Specifications                                                          *)
(***************************************************************************)
Next == ProcessCommandsCall

Spec == Init /\ [][Next]_vars

NextMain ==
    \/ SubcommandRun
    \/ Launch
    \/ \E i \in DOMAIN ecpc : ExecutePrepare(i)
    \/ \E i \in DOMAIN ecpc : ExecuteStart(i)
    \/ \E i \in DOMAIN ecpc : ExecuteRegister(i)
    \/ \E i \in DOMAIN ecpc : ExecuteWait(i)
    \/ \E i \in DOMAIN ecpc : ExecuteFinish(i)
    \/ RunReturn

SpecMain == InitMain /\ [][NextMain]_vars

NextShell == NeedsShellCall

SpecShell == InitShell /\ [][NextShell]_vars

NextOutput ==
    \/ \E s \in Streams : ChildWrite(s)
    \/ \E s \in Streams : ScanLine(s)
    \/ \E s \in Streams : ScanEOF(s)
    \/ OutputsDone
    \/ CmdWait

SpecOutput == InitOutput /\ [][NextOutput]_vars

\* one executeCommand call with the child and the readers of its output
NextCommand ==
    \/ CmdStart
    \/ \E s \in Streams : ChildWrite(s)
    \/ \E s \in Streams : ScanLine(s)
    \/ \E s \in Streams : ScanEOF(s)
    \/ OutputsDone
    \/ CmdReap
    \/ CmdDelete
    \/ CmdStatus

SpecCommand == InitCommand /\ [][NextCommand]_vars

\* a run without signals, with the registry by key
NextKeyed ==
    \/ SubcommandRun
    \/ Launch
    \/ \E i \in DOMAIN ecpc : ExecutePrepare(i)
    \/ \E i \in DOMAIN ecpc : ProcessStart(i)
    \/ \E i \in DOMAIN ecpc : ActiveCommandsStore(i)
    \/ \E i \in DOMAIN ecpc : ExecuteWait(i)
    \/ \E i \in DOMAIN ecpc : ActiveCommandsDelete(i)
    \/ RunReturn

SpecKeyed == InitKeyed /\ [][NextKeyed]_vars

\* the steps of the main goroutine and of the goroutines it starts
RunStep ==
    \/ SubcommandRun
    \/ Launch
    \/ \E i \in DOMAIN ecpc : ExecutePrepare(i)
    \/ \E i \in DOMAIN ecpc : ExecuteStart(i)
    \/ \E i \in DOMAIN ecpc : ExecuteRegister(i)
    \/ \E i \in DOMAIN ecpc : ExecuteWait(i)
    \/ \E i \in DOMAIN ecpc : ExecuteFinish(i)
    \/ RunReturn

\* the steps of the signal listener
SignalStep ==
    \/ SigIntDouble
    \/ SigIntFirst
    \/ SigLock
    \/ SigForward
    \/ \E s \in {"INT", "TERM", "HUP"} : SigBroadcast(s)
    \/ SigExitParallel
    \/ SigExitSequential

NextRun == RunStep \/ SignalStep

SpecRun == InitRun /\ [][NextRun]_vars

\* a run that receives no signal: every goroutine that can take a step
\* eventually takes one, and every child eventually exits and closes its
\* output
SpecRunFair == InitRun /\ [][RunStep]_vars /\ WF_vars(RunStep)

\* a sequential run with signals: the goroutines of the scheduler are
\* scheduled, every child exits, and the listener goroutine, once it has
\* taken a signal from the channel, is scheduled until it is back at the
\* channel; signals need not arrive
ListenerStep == SigLock \/ SigForward \/ SigExitParallel \/ SigExitSequential

SpecSeqFair ==
    /\ InitSeq
    /\ [][NextRun]_vars
    /\ WF_vars(RunStep)
    /\ WF_vars(ListenerStep)

(***************************************************************************)
(* What the command line declares, read off the strings themselves         *)
(***************************************************************************)
HasColon(s) == \E i \in 1..Len(s) : s[i] = ":"

FirstColon(s) == CHOOSE i \in 1..Len(s) : s[i] = ":" /\ \A j \in 1..(i-1) : s[j] # ":"

\* an argument of the form +NAME:COMMAND
WellFormedInline(a) == Len(a) >= 2 /\ a[1] = "+" /\ \E i \in 2..Len(a) : a[i] = ":"

\* an argument that begins with '+' and has no ':'
PlusNoColon(a) == Len(a) >= 1 /\ a[1] = "+" /\ ~HasColon(a)

\* NAME:COMMAND read as a declaration, split at its first ':'
DeclOf(s) ==
    [Tag |-> SubSeq(s, 1, FirstColon(s) - 1),
     Command |-> SubSeq(s, FirstColon(s) + 1, Len(s))]

IsPositional(a) == ~WellFormedInline(a)

Positionals(a) == SelectSeq(a, IsPositional)

InlineDecls(a) ==
    LET w == SelectSeq(a, WellFormedInline)
    IN  [i \in 1..Len(w) |-> DeclOf(Tail(w[i]))]

FlagDecls(t) ==
    LET w == SelectSeq(t, HasColon)
    IN  [i \in 1..Len(w) |-> DeclOf(w[i])]

\* the pending pool: inline declarations, then -t declarations
DeclaredPool(a, t) == InlineDecls(a) \o FlagDecls(t)

\* s is an order-preserving subsequence of t
RECURSIVE IsSubSeq(_, _)
IsSubSeq(s, t) ==
    IF s = << >> THEN TRUE
    ELSE IF t = << >> THEN FALSE
    ELSE IF Head(s) = Head(t) THEN IsSubSeq(Tail(s), Tail(t))
    ELSE IsSubSeq(s, Tail(t))

\* the declarations (tag, command) of the work items after the first n
DeclPart(cmds, n) ==
    [k \in 1..(Len(cmds) - n) |-> [Tag |-> cmds[n + k].Tag, Command |-> cmds[n + k].Command]]

\* value of a decimal digit character, -1 for any other character
DigitValue(c) ==
    IF c \in {"0", "1", "2", "3", "4", "5", "6", "7", "8", "9"}
    THEN CHOOSE d \in 0..9 : << "0", "1", "2", "3", "4", "5", "6", "7", "8", "9" >>[d + 1] = c
    ELSE -1

RECURSIVE DecimalValue(_)
DecimalValue(s) ==
    IF Len(s) = 0 THEN 0
    ELSE 10 * DecimalValue(SubSeq(s, 1, Len(s) - 1)) + DigitValue(s[Len(s)])

\* s is the decimal numeral of n > 0: digits only, no leading zero
IsDecimalOf(s, n) ==
    /\ Len(s) >= 1
    /\ \A i \in 1..Len(s) : DigitValue(s[i]) >= 0
    /\ s[1] # "0"
    /\ DecimalValue(s) = n

\* processCommands has been called and has returned a work list
Returned == calls >= 1 /\ pc # "exited"

\* number of positional arguments among the first i arguments
PositionalRank(a, i) == Cardinality({ j \in 1..i : IsPositional(a[j]) })

\* positions (among the positional arguments) of those that adopt a tag:
\* the m-th positional argument with text c adopts iff at least m
\* declarations have command text c
Adopters(a, t) ==
    LET P == Positionals(a)
        pool == DeclaredPool(a, t)
    IN  { k \in 1..Len(P) :
            Cardinality({ j \in 1..k : P[j] = P[k] })
              <= Cardinality({ d \in 1..Len(pool) : pool[d].Command = P[k] }) }

\* the m-th declaration of the pool, in pool order, with command text c
NthDecl(pool, c, m) ==
    pool[CHOOSE d \in 1..Len(pool) :
            /\ pool[d].Command = c
            /\ Cardinality({ e \in 1..d : pool[e].Command = c }) = m]

\* the pool without, for each command text c, as many of its first
\* declarations of c as there are positional arguments with text c
RECURSIVE LeftOver(_, _, _)
LeftOver(pool, P, d) ==
    IF d > Len(pool) THEN << >>
    ELSE LET c == pool[d].Command
             consumed == Cardinality({ e \in 1..d : pool[e].Command = c })
                           <= Cardinality({ k \in 1..Len(P) : P[k] = c })
         IN  (IF consumed THEN << >> ELSE << pool[d] >>) \o LeftOver(pool, P, d + 1)

C2_ContiguousIndex ==
    Returned => \A k \in 1..Len(commands) : commands[k].Index = k - 1

\* a returned list with both positional items and appended declarations
C2_Witness ==
    /\ Returned
    /\ Len(Positionals(args)) >= 1
    /\ Len(commands) >= Len(Positionals(args)) + 2

\* C3: every returned work item has a non-empty tag.
C3_NonEmptyTag ==
    Returned => \A k \in 1..Len(commands) : commands[k].Tag # << >>

\* C4: with no declaration whose command text equals a positional argument,
\* every positional item's tag is the decimal numeral of Index + 1.
NoCollision ==
    LET P == Positionals(args)
        pool == DeclaredPool(args, tags)
    IN  \A k \in 1..Len(P), d \in 1..Len(pool) : pool[d].Command # P[k]

C4_DefaultTag ==
    (Returned /\ NoCollision) =>
        \A k \in 1..Len(Positionals(args)) :
            /\ IsDecimalOf(commands[k].Tag, k)
            /\ IsDecimalOf(commands[k].Tag, commands[k].Index + 1)

\* positional arguments next to declarations that match none of them
C4_Witness ==
    /\ Returned
    /\ NoCollision
    /\ Len(Positionals(args)) >= 2
    /\ Len(DeclaredPool(args, tags)) >= 1

\* C5: a positional argument that matches a pending declaration keeps its
\* position, takes the tag of a declaration with that command text, and
\* consumes it: #items = #positional + #declarations - #adopting.
C5_AdoptAndConsume ==
    Returned =>
        LET P == Positionals(args)
            pool == DeclaredPool(args, tags)
            A == Adopters(args, tags)
        IN  /\ Len(commands) = Len(P) + Len(pool) - Cardinality(A)
            /\ \A k \in A :
                /\ commands[k].Command = P[k]
                /\ commands[k].Index = k - 1
                /\ \E d \in 1..Len(pool) :
                      pool[d].Command = P[k] /\ pool[d].Tag = commands[k].Tag

\* a positional argument adopted a tag while another declaration was left
C5_Witness ==
    /\ Returned
    /\ Adopters(args, tags) # {}
    /\ Len(DeclaredPool(args, tags)) > Cardinality(Adopters(args, tags))
    /\ Len(Positionals(args)) > Cardinality(Adopters(args, tags))

\* C6: among declarations with the same command text the earliest in pool
\* order is adopted, one per positional argument; the others stay in their
\* order and are appended.
C6_FirstDeclaredWins ==
    Returned =>
        LET P == Positionals(args)
            pool == DeclaredPool(args, tags)
        IN  /\ \A k \in Adopters(args, tags) :
                  commands[k].Tag =
                      NthDecl(pool, P[k], Cardinality({ j \in 1..k : P[j] = P[k] })).Tag
            /\ DeclPart(commands, Len(P)) = LeftOver(pool, P, 1)

\* a positional argument met two declarations of its text with different tags
C6_Witness ==
    /\ Returned
    /\ \E k \in Adopters(args, tags) :
         LET pool == DeclaredPool(args, tags)
         IN  \E d, e \in 1..Len(pool) :
                /\ d < e
                /\ pool[d].Command = Positionals(args)[k]
                /\ pool[e].Command = Positionals(args)[k]
                /\ pool[d].Tag # pool[e].Tag
                /\ commands[k].Tag = pool[d].Tag
                /\ commands[Len(commands)].Tag = pool[e].Tag

\* C7 as stated: an argument with '+' and no ':' is a positional item with
\* the whole argument as command text and the numeric tag of its position.
C7_PlusWithoutColonDefaultTag ==
    Returned =>
        \A i \in 1..Len(args) :
            PlusNoColon(args[i]) =>
                LET r == PositionalRank(args, i)
                IN  /\ r <= Len(commands)
                    /\ commands[r].Command = args[i]
                    /\ IsDecimalOf(commands[r].Tag, r)

\* C7 amended: such an argument is a positional item with the whole argument
\* as command text; its tag is the numeric tag of its position unless a
\* declaration has that command text; it adds nothing to the pool.
C7_PlusWithoutColonPositional ==
    Returned =>
        \A i \in 1..Len(args) :
            PlusNoColon(args[i]) =>
                LET r == PositionalRank(args, i)
                    pool == DeclaredPool(args, tags)
                IN  /\ r <= Len(commands)
                    /\ commands[r].Command = args[i]
                    /\ commands[r].Index = r - 1
                    /\ (\A d \in 1..Len(pool) : pool[d].Command # args[i])
                          => IsDecimalOf(commands[r].Tag, r)
                    /\ \A k \in (Len(Positionals(args)) + 1)..Len(commands) :
                          commands[k].Command = args[i]
                            => \E d \in 1..Len(pool) : pool[d].Command = args[i]

\* a '+' argument without ':' resolved after another positional argument
C7_Witness ==
    /\ Returned
    /\ \E i \in 2..Len(args) :
          /\ PlusNoColon(args[i])
          /\ PositionalRank(args, i) = 2
          /\ commands[2].Command = args[i]
          /\ commands[2].Tag = << "2" >>

\* C8: a -t value without ':' changes nothing: the call gives what it gives
\* with that value removed.
C8_MalformedFlagIgnored ==
    calls >= 1 =>
        \A k \in 1..Len(tags) :
            ~HasColon(tags[k]) =>
                LET r == processCommands(args,
                             SubSeq(tags, 1, k - 1) \o SubSeq(tags, k + 1, Len(tags)))
                IN  /\ commands = r.commands
                    /\ (pc = "exited") = r.exits

\* a call with a malformed -t value next to an inline declaration
C8_Witness ==
    /\ Returned
    /\ Len(commands) >= 2
    /\ Len(DeclaredPool(args, tags)) >= 1
    /\ \E k \in 1..Len(tags) : ~HasColon(tags[k])

\* C9: an empty work list (no positional argument, no well-formed
\* declaration) exits with a non-zero status; nothing is launched or spawned.
C9_EmptyListExits ==
    (/\ pc # "main"
     /\ Len(Positionals(args)) = 0
     /\ Len(DeclaredPool(args, tags)) = 0)
        => /\ pc = "exited"
           /\ exitCode > 0
           /\ launched = 0
           /\ spawned = 0
           /\ activeCommands = {}
           /\ \A i \in DOMAIN ecpc : ecpc[i] = "idle"

\* the program exited on a command line with only malformed -t values
C9_Witness ==
    /\ pc = "exited"
    /\ args = << >>
    /\ Len(tags) >= 1

MetaChars ==
    { "|", "&", ";", "<", ">", "(", ")", "$", "BACKTICK", "BACKSLASH",
      "DQUOTE", "QUOTE", "*", "?", "[", "]", "#", "~", "=", "%" }

\* C11: needsShell is true if the force-shell flag is set or an environment
\* override is given; otherwise it is true exactly when the command text
\* contains a metacharacter.
C11_NeedsShell ==
    needs # "unset" =>
        ((needs = "true") <=>
            \/ forceShell
            \/ Len(envVars) > 0
            \/ \E i \in 1..Len(command) : command[i] \in MetaChars)

\* a command text that needs a shell only because of its last character
C11_Witness ==
    /\ needs = "true"
    /\ ~forceShell
    /\ envVars = << >>
    /\ Len(command) >= 2
    /\ command[1] = "a"
    /\ command[Len(command)] = "%"

(***************************************************************************)
(* Properties of a run                                                     *)
(***************************************************************************)
\* work item i has a child that is started and not yet reaped
Live(i) == ecpc[i] \in {"started", "registered"}

\* C12: in sequential mode at most one child is live; the child of a work
\* item is spawned only after every earlier work item's child is reaped and
\* out of the registry.
C12_OneAtATime ==
    ~parallelMode =>
        /\ Cardinality({ i \in DOMAIN ecpc : ecpc[i] \in {"started", "registered", "reaped"} }) <= 1
        /\ Cardinality(activeCommands) <= 1
        /\ \A i, j \in DOMAIN ecpc :
              (i < j /\ ecpc[j] # "idle") => (ecpc[i] = "returned" /\ i \notin activeCommands)

\* the second child runs after the first has run and been reaped
C12_Witness ==
    /\ ~parallelMode
    /\ 1 \in DOMAIN ecpc
    /\ ecpc[1] = "registered"
    /\ status[0] = "success"
    /\ activeCommands = {1}

\* C13: in concurrent mode the child of a work item is spawned only after
\* the children of all earlier work items.
C13_SpawnInIndexOrder ==
    [][\A j \in DOMAIN ecpc :
          (parallelMode /\ ecpc[j] = "built" /\ ecpc'[j] = "started")
             => \A i \in 0..(j - 1) : ecpc[i] \notin {"idle", "called", "built"}]_vars

\* C14: runParallel launches one execution unit per work item and returns
\* only when all have finished; if every child exits, it returns (unless a
\* signal ends the program first).
C14_ParallelWaitsForAll ==
    /\ [](parallelMode /\ pc = "done" =>
            /\ launched = Len(commands)
            /\ DOMAIN ecpc = 0..(Len(commands) - 1)
            /\ \A i \in DOMAIN ecpc : ecpc[i] = "returned" /\ status[i] # "none")
    /\ ((parallelMode /\ pc = "running") ~> (pc = "done" \/ pc = "exited"))

\* a parallel run of two commands has returned after both children ran
C14_Witness ==
    /\ parallelMode
    /\ pc = "done"
    /\ Len(commands) >= 2
    /\ spawned >= 2

\* the ways an executeCommand call fails
Failures == {"notStarted", "failed"}

C16_ExitZero == pc = "done" => exitCode = 0

\* a run finished although a command did not start and another one failed
C16_Witness ==
    /\ pc = "done"
    /\ \E i, j \in DOMAIN status :
          status[i] = "notStarted" /\ status[j] = "failed"

\* C17: on SIGINT in concurrent mode and on SIGTERM in either mode the
\* listener signals every process of the registry and afterwards exits with
\* 128 + the signal number.
C17_BroadcastThenExit ==
    [][/\ (sigpc = "idle" /\ sigpc' = "ranged") => lastForward' = activeCommands
       /\ (sigpc \in {"ranged", "checked"} /\ sig \in {"INT", "TERM"})
             => sigpc' # "idle"
       /\ (/\ sigpc \in {"ranged", "checked"} /\ sig \in {"INT", "TERM"}
           /\ pc # "exited" /\ pc' = "exited" /\ calls' = calls)
             => exitCode' = (IF sig = "INT" THEN 130 ELSE 143)]_vars

\* C18: when the orchestrator exits on SIGINT or SIGTERM in concurrent
\* mode, every child started and not yet reaped has been sent the signal.
C18_AllLiveSignalled ==
    (pc = "exited" /\ parallelMode /\ exitCode \in {130, 143})
        => \A i \in DOMAIN ecpc : Live(i) => i \in lastForward

\* C19: in sequential mode an interrupt that is not a double interrupt
\* records its time, signals only the current sequential process if it is
\* spawned, does not exit, and the scheduler still runs the remaining items.
C19_FirstInterrupt ==
    /\ [][/\ (sigpc = "idle" /\ sigpc' = "forward")
                => /\ lastSigIntTime' = clock'
                   /\ pc' = pc /\ exitCode' = exitCode
                   /\ ecpc' = ecpc /\ launched' = launched
          /\ (sigpc = "locked" /\ sigpc' = "idle" /\ ~parallelMode)
                => /\ \A i \in DOMAIN ecpc : Live(i) => lastForward' = {i}
                   /\ lastForward' \subseteq
                        { i \in DOMAIN ecpc : ecpc[i] \in {"started", "registered", "reaped"} }
                   /\ Cardinality(lastForward') <= 1
                   /\ pc' = pc /\ exitCode' = exitCode
                   /\ ecpc' = ecpc /\ launched' = launched]_vars
    /\ [](~parallelMode /\ pc = "running" => (ENABLED RunStep \/ ENABLED SigForward))
    /\ [](~parallelMode /\ pc = "done" => \A i \in DOMAIN ecpc : status[i] # "none")

\* the first command was interrupted once, the second then ran to its end
C19_Witness ==
    /\ ~parallelMode
    /\ pc = "done"
    /\ lastSigIntTime # 0
    /\ delivered = 1
    /\ lastForward = {0}
    /\ 1 \in DOMAIN status
    /\ status[1] = "success"

\* C20: in sequential mode an interrupt less than a second after the
\* recorded one exits the program with status 130, and nothing happens
\* after the exit.
C20_DoubleInterruptExits ==
    /\ [][(/\ sigpc = "idle"
           /\ ~parallelMode
           /\ delivered' = delivered + 1
           /\ sig' = "INT"
           /\ lastSigIntTime # 0
           /\ clock' - lastSigIntTime < 1)
             => (pc' = "exited" /\ exitCode' = 130)]_vars
    /\ [][pc # "exited"]_vars

\* the program exited on a double interrupt with a work item not yet started
C20_Witness ==
    /\ pc = "exited"
    /\ exitCode = 130
    /\ ~parallelMode
    /\ delivered = 2
    /\ launched < Len(commands)

\* C21: in sequential mode an interrupt one second or more after the
\* recorded one is a fresh first interrupt: no exit, the timestamp becomes
\* the new time, the signal goes on to be forwarded, and the program exits
\* with 130 only on an interrupt less than a second after the recorded time.
C21_LateInterruptIsFresh ==
    /\ [][(/\ sigpc = "idle"
           /\ ~parallelMode
           /\ delivered' = delivered + 1
           /\ sig' = "INT"
           /\ lastSigIntTime # 0
           /\ clock' - lastSigIntTime >= 1)
             => /\ pc' = pc /\ exitCode' = exitCode
                /\ lastSigIntTime' = clock'
                /\ sigpc' = "forward"]_vars
    /\ [][(sigpc = "forward" /\ sigpc' # "forward") => sigpc' = "locked"]_vars
    /\ [][(~parallelMode /\ pc # "exited" /\ pc' = "exited" /\ exitCode' = 130)
             => (lastSigIntTime # 0 /\ clock' - lastSigIntTime < 1)]_vars

\* a second interrupt exactly one second after the first was forwarded and
\* the run goes on
C21_Witness ==
    /\ ~parallelMode
    /\ pc = "running"
    /\ prevSigIntTime # 0
    /\ lastSigIntTime - prevSigIntTime = 1
    /\ sigpc = "idle"
    /\ lastForward # {}

\* C22: when the program exits on a double interrupt in sequential mode, the
\* child that is live at that moment is one the listener has signalled.
C22_DoubleInterruptSignalsLive ==
    (pc = "exited" /\ exitCode = 130 /\ ~parallelMode)
        => \A i \in DOMAIN ecpc : Live(i) => lastForward = {i}

C34_TimestampFrame ==
    /\ [][lastSigIntTime' # lastSigIntTime
             => /\ ~parallelMode
                /\ sigpc = "idle" /\ sigpc' = "forward"
                /\ sig' = "INT"
                /\ lastSigIntTime' = clock']_vars
    /\ [][(sigpc = "idle" /\ sig' \in {"HUP", "TERM"})
             => lastSigIntTime' = lastSigIntTime]_vars
    /\ [][(parallelMode /\ delivered' # delivered)
             => lastSigIntTime' = lastSigIntTime]_vars
    /\ [][(ecpc' # ecpc \/ launched' # launched \/ activeCommands' # activeCommands
              \/ currentSequentialCmd' # currentSequentialCmd)
             => lastSigIntTime' = lastSigIntTime]_vars
    /\ [][(/\ ~parallelMode
           /\ sigpc = "idle"
           /\ sig' = "INT"
           /\ lastSigIntTime # 0
           /\ clock' - lastSigIntTime < 1)
             => (pc' = "exited" /\ exitCode' = 130 /\ ecpc' = ecpc)]_vars

\* the first interrupt was forwarded to the first child, the second one
\* ended the program while the second child was running
C34_Witness ==
    /\ ~parallelMode
    /\ pc = "exited"
    /\ exitCode = 130
    /\ lastForward = {0}
    /\ 1 \in DOMAIN ecpc
    /\ ecpc[1] \in {"started", "registered"}

(***************************************************************************)
(* Properties of the output                                                *)
(***************************************************************************)
\* position of the first newline of d, 0 if there is none
FirstLF(d) ==
    IF \E i \in 1..Len(d) : d[i] = "LF"
    THEN CHOOSE i \in 1..Len(d) : d[i] = "LF" /\ \A j \in 1..(i - 1) : d[j] # "LF"
    ELSE 0

\* a line without its line end: "\n" or "\r\n"
StripLineEnd(l) ==
    IF l # << >> /\ l[Len(l)] = "CR" THEN SubSeq(l, 1, Len(l) - 1) ELSE l

\* the newline-delimited lines of d, a last line without newline included
RECURSIVE SplitLF(_)
SplitLF(d) ==
    IF d = << >> THEN << >>
    ELSE IF FirstLF(d) = 0 THEN << StripLineEnd(d) >>
    ELSE << StripLineEnd(SubSeq(d, 1, FirstLF(d) - 1)) >>
            \o SplitLF(SubSeq(d, FirstLF(d) + 1, Len(d)))

\* the lines processOutput has read from stream s so far: the lines of what
\* it has taken from the pipe, but for the piece a failed read ended in
LinesRead(s) ==
    LET all == SplitLF(SubSeq(source[s], 1, rpos[s]))
    IN  IF scan[s] = "error" THEN SubSeq(all, 1, Len(all) - 1) ELSE all

\* the lines processOutput has printed for stream s
LinesPrinted(s) ==
    IF scan[s] = "error" THEN SubSeq(sink[s], 1, Len(sink[s]) - 1) ELSE sink[s]

\* colours are enabled
ColorOn == ~noColor /\ colorSupported

\* the tagged line of the two formats
TaggedLine(s, line) ==
    LET kind  == IF s = "out" THEN << "o", "u", "t" >> ELSE << "e", "r", "r" >>
        color == IF s = "out" THEN "ESC[32m" ELSE "ESC[31m"
    IN  IF ColorOn
        THEN << color, "[", "1", "]", " ", "ESC[0m" >> \o line \o << "LF" >>
        ELSE << "[", "1", ":" >> \o kind \o << "]", " " >> \o line \o << "LF" >>

\* C23: for every line read from a stream processOutput prints exactly one
\* line: "[tag:kind] " + line without colour, colour + "[tag] " + reset +
\* line with colour; the text of the line, escape sequences included,
\* follows the prefix unchanged.
C23_TaggedLines ==
    \A s \in Streams :
        /\ Len(LinesPrinted(s)) = Len(LinesRead(s))
        /\ \A k \in 1..Len(LinesRead(s)) :
              LinesPrinted(s)[k] = TaggedLine(s, LinesRead(s)[k])

\* with colours on, a line that carries an escape sequence of its own
C23_Witness ==
    /\ ColorOn
    /\ Len(sink["out"]) >= 2
    /\ sink["out"][2] = << "ESC[32m", "[", "1", "]", " ", "ESC[0m", "ESC[31m", "a", "LF" >>

\* C24: processOutput has no line-length limit: when it has returned, it has
\* read the stream to its end and printed one tagged line for every
\* newline-delimited line, whole.
C24_NoLineLimit ==
    \A s \in Streams :
        scan[s] # "reading" =>
            /\ rpos[s] = Len(source[s])
            /\ Len(sink[s]) = Len(SplitLF(source[s]))
            /\ \A k \in 1..Len(sink[s]) :
                  sink[s][k] = TaggedLine(s, SplitLF(source[s])[k])

\* a status message as it is to be written
StatusLine(color, message) ==
    IF ColorOn
    THEN << color >> \o message \o << "ESC[0m", "LF" >>
    ELSE message \o << "LF" >>

\* C25: a message of printColoredMessage carries the colour code and the
\* reset code if and only if colours are enabled; the message text is
\* written in every case.
C25_ColoredMessage ==
    /\ \A s \in Streams :
          scan[s] = "error" =>
              LET kind == IF s = "out" THEN << "o", "u", "t" >> ELSE << "e", "r", "r" >>
                  text == sink[s][Len(sink[s])]
              IN  /\ text = StatusLine("ESC[31m",
                              << "[", "1", "]", " ", "Error reading " >> \o kind
                              \o << ": ", "bufio.Scanner: token too long" >>)
                  /\ Contains(text, "ESC[31m") <=> ColorOn
                  /\ Contains(text, "ESC[0m") <=> ColorOn
    /\ opc = "returned" =>
          /\ sink["main"] = << StatusLine("ESC[32m",
                 << "[", "1", "]", " ", "Command completed successfully" >>) >>
          /\ Contains(sink["main"][1], "ESC[32m") <=> ColorOn
          /\ Contains(sink["main"][1], "ESC[0m") <=> ColorOn

\* both messages have been printed with the no-color flag set on a terminal
\* that supports colours
C25_Witness ==
    /\ noColor
    /\ colorSupported
    /\ scan["out"] = "error"
    /\ opc = "returned"

\* C26: the registry has an entry for a child exactly while the child is
\* started and not yet reaped.
C26_RegistryIffLive ==
    \A i \in DOMAIN ecpc : (i \in activeCommands) <=> Live(i)

\* C27: in sequential mode the current-command reference is nil whenever no
\* executeCommand call is in progress, whatever path the calls returned by.
C27_CurrentCleared ==
    ~parallelMode =>
        ((\A i \in DOMAIN ecpc : ecpc[i] \in {"idle", "returned"})
            => currentSequentialCmd = -1)

\* C28: the timestamp is written only by the holder of the mutex, and the
\* process handle of the current command is not written while the listener
\* is inside its critical section.
C28_AccessUnderMutex ==
    [][/\ lastSigIntTime' # lastSigIntTime => sigpc = "locked"
       /\ \A i \in DOMAIN ecpc :
             (/\ currentSequentialCmd = i
              /\ ecpc[i] = "built"
              /\ i \in DOMAIN ecpc'
              /\ ecpc'[i] = "started") => sigpc # "locked"]_vars

\* an executeCommand call of work item i is at one of its two Lock() calls
AtLock(i) ==
    /\ pc = "running"
    /\ i \in DOMAIN ecpc
    /\ ecpc[i] \in {"called", "reaped"}

\* C29: the listener holds the mutex only for the forwarding step, which
\* waits for nothing; scheduler and listener never deadlock; a call of
\* executeCommand that is at a Lock() gets past it; a signal is handled
\* without a target when the registry is empty or no current command is set.
C29_ListenerNeverBlocks ==
    /\ []((pc \in {"main", "running"} /\ sigpc = "locked") => ENABLED SigForward)
    /\ [](pc = "running" => (ENABLED RunStep \/ ENABLED ListenerStep))
    /\ [][/\ (sigpc = "locked" /\ sigpc' = "idle" /\ currentSequentialCmd = -1)
               => (lastForward' = {} /\ pc' = pc)
          /\ (sigpc = "idle" /\ sigpc' = "ranged" /\ activeCommands = {})
               => (lastForward' = {} /\ pc' = pc)]_vars
    /\ \A i \in 0..(MaxWork - 1) : AtLock(i) ~> ~AtLock(i)

\* the scheduler is at the Lock() that follows cmd.Wait while the listener
\* holds the mutex
C29_Witness ==
    /\ sigpc = "locked"
    /\ \E i \in DOMAIN ecpc : ecpc[i] = "reaped"

\* C30: a read error on one stream ends only the loop of that stream: the
\* other stream is still read to its end and executeCommand goes on to
\* cmd.Wait and returns, so after a read error the call is never stuck.
C30_ReadErrorIsolated ==
    ((\E s \in Streams : scan[s] = "error") /\ opc # "returned")
        => ENABLED NextOutput

(***************************************************************************)
(* Properties of the shared sink                                           *)
(***************************************************************************)
\* all that was written, as one string
RECURSIVE Flatten(_)
Flatten(ws) == IF ws = << >> THEN << >> ELSE Head(ws) \o Flatten(Tail(ws))

\* the lines of d, each with its newline; a last piece without one included
RECURSIVE CutLF(_)
CutLF(d) ==
    IF d = << >> THEN << >>
    ELSE IF FirstLF(d) = 0 THEN << d >>
    ELSE << SubSeq(d, 1, FirstLF(d)) >> \o CutLF(SubSeq(d, FirstLF(d) + 1, Len(d)))

\* the text of the read-error line of stream s
ReadErrorLine(s) ==
    LET kind == IF s = "out" THEN << "o", "u", "t" >> ELSE << "e", "r", "r" >>
    IN  StatusLine("ESC[31m", << "[", "1", "]", " ", "Error reading " >> \o kind
                              \o << ": ", "bufio.Scanner: token too long" >>)

\* the lines stream s is to have in the sink, in order: one tagged line for
\* every line read, and the error line after a failed read
ExpectedLines(s) ==
    [k \in 1..Len(LinesRead(s)) |-> TaggedLine(s, LinesRead(s)[k])]
        \o (IF scan[s] = "error" THEN << ReadErrorLine(s) >> ELSE << >>)

\* the lines of a sequence of lines that are lines of stream s
LinesOf(lines, s) ==
    LET IsLineOf(l) == \E k \in 1..Len(ExpectedLines(s)) : ExpectedLines(s)[k] = l
    IN  SelectSeq(lines, IsLineOf)

\* C31: every output line and every status line reaches standard output as
\* one write made of prefix, text and newline, so the lines of the sink are
\* exactly the lines of the streams, each whole and, for one stream, in
\* order, however the two streams interleave.
C31_WholeLineWrites ==
    LET lines == CutLF(Flatten(stdout))
    IN  /\ lines = stdout
        /\ \A k \in 1..Len(stdout) :
              /\ stdout[k] # << >>
              /\ stdout[k][Len(stdout[k])] = "LF"
        /\ \A s \in Streams : LinesOf(lines, s) = ExpectedLines(s)
        /\ Len(lines) = Len(ExpectedLines("out")) + Len(ExpectedLines("err"))
                          + (IF opc = "returned" THEN 1 ELSE 0)

\* a line of stderr was written between two lines of stdout
C31_Witness ==
    /\ Len(stdout) >= 3
    /\ stdout[1] = TaggedLine("out", << "a" >>)
    /\ stdout[2] = TaggedLine("err", << "a" >>)
    /\ stdout[3] = TaggedLine("out", << >>)

(***************************************************************************)
(* Properties of one executeCommand call                                   *)
(***************************************************************************)
\* the three completion status lines of the command with tag 1
CompletionLines ==
    { StatusLine("ESC[32m", << "[", "1", "]", " ", "Command completed successfully" >>),
      StatusLine("ESC[33m", << "[", "1", "]", " ", "Command exited with status: ", "1" >>),
      StatusLine("ESC[31m", << "[", "1", "]", " ", "Error waiting for command: ", "error" >>) }

\* the positions of the sink that hold a completion status line
CompletionsIn(ws) == { k \in 1..Len(ws) : ws[k] \in CompletionLines }

\* C33: a command whose child was spawned writes exactly one completion
\* status line, after all output lines of both streams and after the
\* child's entry has left the registry; a command without a child writes
\* none.
C33_OneCompletionLine ==
    /\ []((opc = "returned" /\ spawned = 1)
             => CompletionsIn(stdout) = { Len(stdout) })
    /\ []((opc = "returned" /\ spawned = 0) => CompletionsIn(stdout) = {})
    /\ [](opc # "returned" => CompletionsIn(stdout) = {})
    /\ [][CompletionsIn(stdout') # CompletionsIn(stdout)
            => /\ activeCommands = {}
               /\ spawned = 1
               /\ \A s \in Streams :
                     /\ scan[s] # "reading"
                     /\ LinesOf(stdout, s) = ExpectedLines(s)
                     /\ LinesOf(stdout', s) = LinesOf(stdout, s)]_vars

\* the child wrote on both streams and ended with a non-zero exit status
C33_Witness ==
    /\ opc = "returned"
    /\ spawned = 1
    /\ waitErr = "exit"
    /\ Len(sink["out"]) >= 2
    /\ Len(sink["err"]) >= 1

(***************************************************************************)
(* Properties of the registry by key                                       *)
(***************************************************************************)
\* C35: with duplicate tags permitted, every child that is registered and
\* not yet reaped has an entry of its own under its key: no other live child
\* has taken the key, and no other command's removal has deleted the entry,
\* whatever pid the operating system gave to whom.
C35_OwnEntryWhileLive ==
    \A j \in DOMAIN ecpc :
        ecpc[j] = "registered"
            => /\ CmdID(j) \in DOMAIN activeKeys
               /\ activeKeys[CmdID(j)] = j

====
